---- MODULE Spec2Model ----
(***************************************************************************)
(* A model of kb-ai.js (src/node-guide-document/script.js): the in-browser *)
(* ingestion -> index -> retrieval -> grounded-generation pipeline.        *)
(*                                                                         *)
(* Every async function is cut at its awaits: one action is the            *)
(* synchronous code between two suspension points.  An await of an         *)
(* external collaborator (IndexedDB, the embedding model, the LLM, a file  *)
(* read) may resolve or reject, which gives an Ok and a Fail action.       *)
(* Under Spec one user command runs at a time (spec.md section 5: exactly  *)
(* one task actor); a command's promise settling is the step Return.       *)
(***************************************************************************)
EXTENDS Integers, Sequences, FiniteSets, TLC

\* ---------------------------------------------------------------- bounds
\* longest file list handed to the btnAdd handler
MaxFiles == 2
\* most documents held in memory by ingestion
MaxDocs == 2
\* most messages in the chat transcript
MaxMsgs == 3
\* most non-empty deltas of one streamed answer
MaxDeltas == 2
\* most commands the user issues in one run
MaxCommands == 3
\* when retrieval is examined on its own: chunks in memory with an embedding
MaxTopKChunks == 7
\* and chunks in memory without one
MaxTopKNull == 1
\* when citation parsing is examined on its own: characters of the answer,
\* a leading citation not counted
MaxAnswerLen == 6
\* when normalizeText and chunkText are examined on their own: characters of a
\* text whose every spelling is tried
MaxTextLen == 5
\* and, for the long texts, how far a run's length strays from the least
\* length of a piece
MaxSlack == 1
\* and the largest chunkSize tried besides the default
MaxChunkSize == 3

\* ------------------------------------------------------ program constants
CHUNK_CHARS == 1200
CHUNK_OVERLAP == 200
TOP_K == 6
BATCH == 8

\* an absent embedding (embedding: null)
NoVec == <<>>

\* ---------------------------------------------------------------- helpers
Range(s) == {s[i] : i \in DOMAIN s}

Min(a, b) == IF a <= b THEN a ELSE b

Max(a, b) == IF a >= b THEN a ELSE b

\* Array.prototype.slice(from, to) with 0-based from (inclusive), to (exclusive)
Slice(s, from, to) == SubSeq(s, from + 1, Min(to, Len(s)))

RECURSIVE Concat(_)
\* Array.prototype.flat / repeated push(...xs)
Concat(ss) == IF ss = <<>> THEN <<>> ELSE Head(ss) \o Concat(Tail(ss))

\* ------------------------------------------------------------- the embedder
\* The embedding model is a fixed function of the text (pooling "mean",
\* normalize true): unit vectors of dimension 2 stand for the model's output.
Texts == {"t1", "t2", "t3"}

Embed(t) == CASE t = "t1" -> <<1, 0>> [] t = "t2" -> <<0, 1>> [] OTHER -> <<-1, 0>>

\* embedTexts, lines 235-244: one vector per input text, in input order
embedTexts(texts) == [i \in 1..Len(texts) |-> Embed(texts[i])]

\* ---------------------------------------------------------------- retrieval
RECURSIVE dotFrom(_, _, _)
dotFrom(a, b, i) ==
  IF i > Min(Len(a), Len(b)) THEN 0 ELSE a[i] * b[i] + dotFrom(a, b, i + 1)

dot(a, b) == dotFrom(a, b, 1)

\* a comparator that sorts by ascending score
compareScoreAsc(x, y) == x.score - y.score

\* the comparator of topKByScore: (x, y) => y.score - x.score
compareScore(x, y) == y.score - x.score

RECURSIVE insertStable(_, _)
\* x goes behind every element the comparator does not put after it
insertStable(sorted, x) ==
  IF sorted = <<>> THEN <<x>>
  ELSE IF compareScore(Head(sorted), x) <= 0
         THEN <<Head(sorted)>> \o insertStable(Tail(sorted), x)
         ELSE <<x>> \o sorted

RECURSIVE sortStable(_)
\* Array.prototype.sort is stable (ES2019)
sortStable(items) ==
  IF items = <<>> THEN <<>>
  ELSE insertStable(sortStable(SubSeq(items, 1, Len(items) - 1)), items[Len(items)])

topKByScore(items, k) == Slice(sortStable(items), 0, k)

\* if (!ch.embedding) continue
hasEmbedding(ch) == ch.embedding # NoVec

RECURSIVE scoreChunks(_, _)
scoreChunks(q, chs) ==
  IF chs = <<>> THEN <<>>
  ELSE (IF hasEmbedding(Head(chs))
          THEN <<[score |-> dot(q, Head(chs).embedding), ch |-> Head(chs)]>>
          ELSE <<>>) \o scoreChunks(q, Tail(chs))

retrieveTopChunks(q, chs) == topKByScore(scoreChunks(q, chs), TOP_K)

\* buildContext: header "[C{i}] ({docName} / p.{page})" and the chunk text
buildContext(top) ==
  [i \in 1..Len(top) |->
     [c |-> i, docName |-> top[i].ch.docName, page |-> top[i].ch.page, text |-> top[i].ch.text]]

\* ------------------------------------------------------------------- files
\* A file is described by what extraction and chunkText make of it: per page,
\* the texts of the pieces chunkText returns for that page's text.
FileEmpty == [name |-> "empty.txt", pdf |-> FALSE, pages |-> << <<>> >>]

FilePdf == [name |-> "two.pdf", pdf |-> TRUE, pages |-> << <<"t1">>, <<"t2", "t1">> >>]

\* more pieces than one embedding batch holds, the last ordinal of two digits
FileBig ==
  [name |-> "big.txt", pdf |-> FALSE,
   pages |-> << <<"t1", "t2", "t1", "t2", "t1", "t2", "t1", "t2", "t1", "t2", "t1">> >>]

Files == {FileEmpty, FilePdf, FileBig}

FileLists == UNION {[1..n -> Files] : n \in 0..MaxFiles}

\* doc = { id, name, type, size, addedAt }: type, size and addedAt are carried
\* along untouched and stand in the field "extra" with every other field
NoDoc == [id |-> 0, name |-> "", extra |-> "none"]

newDoc(docId, file) == [id |-> docId, name |-> file.name, extra |-> "none"]

\* id: `${docId}|p${pageNo}|c${c}`
chunkId(docId, pageNo, c) == <<docId, pageNo, c>>

\* the chunks of one page, c = 0 .. pieces.length - 1
pageChunks(docId, file, pageNo) ==
  [k \in 1..Len(file.pages[pageNo]) |->
     [id |-> chunkId(docId, pageNo, k - 1), docId |-> docId, docName |-> file.name,
      page |-> pageNo, text |-> file.pages[pageNo][k], embedding |-> NoVec,
      extra |-> "none"]]

\* for (i < pages.length) for (c < pieces.length) newChunks.push(...)
makeChunks(docId, file) ==
  Concat([p \in 1..Len(file.pages) |-> pageChunks(docId, file, p)])

\* a loop that stops one short of the batch: j < batch.length - 1
assignBatchShort(chs, i, vecs) ==
  [n \in 1..Len(chs) |->
     IF n > i /\ n < Min(i + BATCH, Len(chs)) /\ n - i <= Len(vecs)
       THEN [chs[n] EXCEPT !.embedding = vecs[n - i]]
       ELSE chs[n]]

\* for (j < batch.length) batch[j].embedding = vecs[j], batch = slice(i, i + BATCH)
assignBatch(chs, i, vecs) ==
  [n \in 1..Len(chs) |->
     IF n > i /\ n <= i + BATCH /\ n - i <= Len(vecs)
       THEN [chs[n] EXCEPT !.embedding = vecs[n - i]]
       ELSE chs[n]]

\* a batch that sends the text of its first chunk for every chunk
batchTextsFirst(chs, i) == [j \in 1..Len(Slice(chs, i, i + BATCH)) |-> Slice(chs, i, i + BATCH)[1].text]

batchTexts(chs, i) == [j \in 1..Len(Slice(chs, i, i + BATCH)) |-> Slice(chs, i, i + BATCH)[j].text]

\* -------------------------------------------------------------- the Store
\* An object store holds one record per key (keyPath "id"); put overwrites.
putOne(store, obj) == {r \in store : r.id # obj.id} \cup {obj}

RECURSIVE putMany(_, _)
\* dbPutMany: for (const obj of objects) store.put(obj), in one transaction
putMany(store, objs) ==
  IF objs = <<>> THEN store ELSE putMany(putOne(store, Head(objs)), Tail(objs))

RECURSIVE Digits(_)
\* the UTF-16 code units of a number's decimal form
Digits(n) == IF n < 10 THEN <<48 + n>> ELSE Digits(n \div 10) \o <<48 + (n % 10)>>

\* the code units of "{docId}|p{page}|c{ordinal}"; a uuid has a fixed length,
\* so one unit stands for it
chunkKey(id) ==
  <<1000 + id[1]>> \o <<124, 112>> \o Digits(id[2]) \o <<124, 99>> \o Digits(id[3])

RECURSIVE SeqLess(_, _)
\* IndexedDB's order of string keys: by code unit, a prefix first
SeqLess(a, b) ==
  IF b = <<>> THEN FALSE
  ELSE IF a = <<>> THEN TRUE
  ELSE IF Head(a) # Head(b) THEN Head(a) < Head(b)
  ELSE SeqLess(Tail(a), Tail(b))

RECURSIVE getAllDocs(_)
\* getAll returns the records in key order
getAllDocs(store) ==
  IF store = {} THEN <<>>
  ELSE LET m == CHOOSE r \in store : \A o \in store : r.id <= o.id
       IN <<m>> \o getAllDocs(store \ {m})

RECURSIVE getAllChunks(_)
getAllChunks(store) ==
  IF store = {} THEN <<>>
  ELSE LET m == CHOOSE r \in store :
                  \A o \in store \ {r} : SeqLess(chunkKey(r.id), chunkKey(o.id))
       IN <<m>> \o getAllChunks(store \ {m})

\* ------------------------------------------------------------ the transcript
NoMeta == [warn |-> FALSE, source |-> FALSE, shown |-> FALSE, ctx |-> <<>>]

\* addMessage(role, text): a bubble and an empty meta
newMessage(role, text) == [role |-> role, text |-> text, meta |-> NoMeta]

\* the guidance message init() appends
GuideMsg == newMessage("assistant", <<"guide">>)

\* --------------------------------------------------------------- the state
VARIABLES
  docs,        \* state.docs
  chunks,      \* state.chunks
  dbDocs,      \* object store "docs"
  dbChunks,    \* object store "chunks"
  embedder,    \* state.embedder is set
  hf,          \* state.hf is set
  engine,      \* state.engine is set
  gpu,         \* navigator.gpu is present
  transcript,  \* the children of state.els.chat
  progress,    \* state.els.progress.value, in thousandths
  alert,       \* the alert() the last step raised, "none" if it raised none
  pc,          \* where each event handler is suspended
  add,         \* locals of the btnAdd handler and its indexFile call
  qa,          \* locals of ask
  imp,         \* locals of importJSON
  rb,          \* locals of rebuildAllEmbeddings
  jsonFile,    \* the file the last export downloaded (<<>>: none yet): its
               \* data, and for reference the docs and chunks it was taken from
  ncmd         \* how many commands the user has issued

vars ==
  <<docs, chunks, dbDocs, dbChunks, embedder, hf, engine, gpu, transcript,
    progress, alert, pc, add, qa, imp, rb, jsonFile, ncmd>>

Handlers == {"add", "ask", "clear", "import", "rebuild", "loadEmbed", "loadLLM"}

\* files, i, doc, newChunks, b: the locals of the handler and of indexFile.
\* Observed, not stored by the code: done (calls of indexFile that returned),
\* errs (alerts of the catch block), late (calls that threw after the push
\* into memory), docs0 and chunks0 (lengths of state.docs and state.chunks at
\* the click), pushed (chunks pushed into memory since the click)
AddIdle ==
  [files |-> <<>>, i |-> 0, doc |-> NoDoc, newChunks |-> <<>>, b |-> 0,
   done |-> 0, errs |-> 0, late |-> 0, docs0 |-> 0, chunks0 |-> 0, pushed |-> 0]

\* q, strict, show, el (assistantEl), top, prompt, answer: the locals of ask.
\* Observed, not stored by the code: deltas (the items the stream has yielded,
\* in order) and nd (how many)
QaIdle ==
  [q |-> "", strict |-> FALSE, show |-> FALSE, el |-> 0, top |-> <<>>,
   prompt |-> <<>>, answer |-> <<>>, nd |-> 0, deltas |-> <<>>]

NoPayload == [docs |-> [k |-> "missing", v |-> <<>>], chunks |-> [k |-> "missing", v |-> <<>>]]

ImpIdle ==
  [text |-> "none", data |-> NoPayload,
   pre |-> [docs |-> <<>>, chunks |-> <<>>, dbDocs |-> {}, dbChunks |-> {}]]

RbIdle == [i |-> 0]

Idle == \A h \in Handlers : pc[h] = "idle"

\* init(): a first visit, with an empty database
Init ==
  /\ docs = <<>>
  /\ chunks = <<>>
  /\ dbDocs = {}
  /\ dbChunks = {}
  /\ embedder = FALSE
  /\ hf = FALSE
  /\ engine = FALSE
  /\ gpu \in BOOLEAN
  /\ transcript = <<GuideMsg>>
  /\ progress = 0
  /\ alert = "none"
  /\ pc = [h \in Handlers |-> "idle"]
  /\ add = AddIdle
  /\ qa = QaIdle
  /\ imp = ImpIdle
  /\ rb = RbIdle
  /\ jsonFile = <<>>
  /\ ncmd = 0

\* ------------------------------------------------------------------ uuid()
\* crypto.randomUUID(): an id no document or chunk in memory, in the Store,
\* in a handler's locals or in the exported file carries (the least such).
UsedIds ==
  {d.id : d \in Range(docs) \cup dbDocs} \cup
  {c.docId : c \in Range(chunks) \cup dbChunks} \cup
  {add.doc.id} \cup
  UNION {{d.id : d \in Range(jsonFile[n].data.docs.v)} \cup
         {c.docId : c \in Range(jsonFile[n].data.chunks.v)} : n \in DOMAIN jsonFile}

uuid == CHOOSE n \in 1..(Cardinality(UsedIds) + 1) :
          n \notin UsedIds /\ \A m \in 1..(n - 1) : m \in UsedIds

\* ------------------------------------------------- exceptions and returns
\* the alert of the catch block that wraps a handler's call (btnClear has none)
catchAlert(h) ==
  CASE h = "add" -> "IndexFailed"
    [] h = "ask" -> "AskFailed"
    [] h = "import" -> "ImportFailed"
    [] h = "rebuild" -> "RebuildFailed"
    [] h = "loadEmbed" -> "EmbedLoadFailed"
    [] h = "loadLLM" -> "LLMLoadFailed"
    [] OTHER -> "none"

\* an ensureEmbedder that tests state.hf where the code tests state.embedder
ensurePcByRuntime == IF hf THEN "ensured" ELSE "ens_import"

\* ensureEmbedder up to its first await: returns at once when state.embedder is
\* set, else shows progress 0.02 and imports the runtime (if (!state.hf)) or
\* goes straight to creating the pipeline
ensurePc == IF embedder THEN "ensured" ELSE IF hf THEN "ens_pipeline" ELSE "ens_import"

ensureProgress(prog) == IF embedder THEN prog ELSE 20

\* for (const f of files): indexFile(next file) up to its first await, or the
\* end of the loop
addAdvance(a, prog) ==
  IF a.i < Len(a.files)
    THEN /\ add' = [a EXCEPT !.i = @ + 1, !.doc = NoDoc, !.newChunks = <<>>, !.b = 0]
         /\ pc' = [pc EXCEPT !["add"] = ensurePc]
         /\ progress' = ensureProgress(prog)
    ELSE /\ add' = [a EXCEPT !.doc = NoDoc, !.newChunks = <<>>, !.b = 0]
         /\ pc' = [pc EXCEPT !["add"] = "return"]
         /\ progress' = prog

\* a catch block around the whole loop of btnAdd: the first error ends the loop
raiseStops(h, prog) ==
  /\ alert' = catchAlert(h)
  /\ pc' = [pc EXCEPT ![h] = "return"]
  /\ progress' = prog
  /\ add' = IF h = "add" THEN [add EXCEPT !.errs = @ + 1] ELSE add

\* an await of handler h rejects: the exception reaches the handler's catch
\* (per file for btnAdd, which goes on with the next file); nothing resets the
\* progress bar
raise(h, prog) ==
  /\ alert' = catchAlert(h)
  /\ IF h = "add"
       THEN addAdvance([add EXCEPT !.errs = @ + 1,
                                   !.late = IF pc["add"] \in {"putDocs", "putChunks"}
                                              THEN @ + 1 ELSE @], prog)
       ELSE /\ pc' = [pc EXCEPT ![h] = "return"]
            /\ progress' = prog
            /\ add' = add

\* the handler's promise settles; its locals are gone
Return(h) ==
  /\ pc[h] = "return"
  /\ pc' = [pc EXCEPT ![h] = "idle"]
  /\ alert' = "none"
  /\ add' = IF h = "add" THEN AddIdle ELSE add
  /\ qa' = IF h = "ask" THEN QaIdle ELSE qa
  /\ imp' = IF h = "import" THEN ImpIdle ELSE imp
  /\ rb' = IF h = "rebuild" THEN RbIdle ELSE rb
  /\ UNCHANGED <<docs, chunks, dbDocs, dbChunks, embedder, hf, engine, gpu,
                 transcript, progress, jsonFile>>

\* --------------------------------------------------------- ensureEmbedder
EnsureCallers == {"add", "ask", "rebuild", "loadEmbed"}

\* state.hf = await import(TRANSFORMERS_URL) resolves
EnsureImportOk(h) ==
  /\ pc[h] = "ens_import"
  /\ hf' = TRUE
  /\ pc' = [pc EXCEPT ![h] = "ens_pipeline"]
  /\ alert' = "none"
  /\ UNCHANGED <<docs, chunks, dbDocs, dbChunks, embedder, engine, gpu, transcript,
                 progress, add, qa, imp, rb, jsonFile>>

EnsureImportFail(h) ==
  /\ pc[h] = "ens_import"
  /\ raise(h, progress)
  /\ UNCHANGED <<docs, chunks, dbDocs, dbChunks, embedder, hf, engine, gpu,
                 transcript, qa, imp, rb, jsonFile>>

\* state.embedder = await state.hf.pipeline(...) resolves; setProgress(0)
EnsurePipelineOk(h) ==
  /\ pc[h] = "ens_pipeline"
  /\ embedder' = TRUE
  /\ progress' = 0
  /\ pc' = [pc EXCEPT ![h] = "ensured"]
  /\ alert' = "none"
  /\ UNCHANGED <<docs, chunks, dbDocs, dbChunks, hf, engine, gpu, transcript,
                 add, qa, imp, rb, jsonFile>>

EnsurePipelineFail(h) ==
  /\ pc[h] = "ens_pipeline"
  /\ raise(h, progress)
  /\ UNCHANGED <<docs, chunks, dbDocs, dbChunks, embedder, hf, engine, gpu,
                 transcript, qa, imp, rb, jsonFile>>

\* ------------------------------------------------- btnLoadEmbed, btnLoadModel
LoadEmbedCall ==
  /\ pc["loadEmbed"] = "idle"
  /\ pc' = [pc EXCEPT !["loadEmbed"] = ensurePc]
  /\ progress' = ensureProgress(progress)
  /\ alert' = "none"
  /\ UNCHANGED <<docs, chunks, dbDocs, dbChunks, embedder, hf, engine, gpu,
                 transcript, add, qa, imp, rb, jsonFile>>

\* await ensureEmbedder() resumes; refreshStats()
LoadEmbedDone ==
  /\ pc["loadEmbed"] = "ensured"
  /\ pc' = [pc EXCEPT !["loadEmbed"] = "return"]
  /\ alert' = "none"
  /\ UNCHANGED <<docs, chunks, dbDocs, dbChunks, embedder, hf, engine, gpu,
                 transcript, progress, add, qa, imp, rb, jsonFile>>

\* loadLLM(modelId) up to await CreateMLCEngine; hasModel: a model is selected
LoadLLMCall(hasModel) ==
  /\ pc["loadLLM"] = "idle"
  /\ IF ~gpu
       THEN /\ alert' = "NoWebGPU"
            /\ pc' = [pc EXCEPT !["loadLLM"] = "return"]
            /\ progress' = progress
       ELSE IF ~hasModel
         THEN /\ alert' = "SelectModel"
              /\ pc' = [pc EXCEPT !["loadLLM"] = "return"]
              /\ progress' = progress
         ELSE /\ alert' = "none"
              /\ pc' = [pc EXCEPT !["loadLLM"] = "create"]
              /\ progress' = 10
  /\ UNCHANGED <<docs, chunks, dbDocs, dbChunks, embedder, hf, engine, gpu,
                 transcript, add, qa, imp, rb, jsonFile>>

\* state.engine = await webllm.CreateMLCEngine(...) resolves; setProgress(0)
LoadLLMOk ==
  /\ pc["loadLLM"] = "create"
  /\ engine' = TRUE
  /\ progress' = 0
  /\ pc' = [pc EXCEPT !["loadLLM"] = "return"]
  /\ alert' = "none"
  /\ UNCHANGED <<docs, chunks, dbDocs, dbChunks, embedder, hf, gpu, transcript,
                 add, qa, imp, rb, jsonFile>>

LoadLLMFail ==
  /\ pc["loadLLM"] = "create"
  /\ raise("loadLLM", progress)
  /\ UNCHANGED <<docs, chunks, dbDocs, dbChunks, embedder, hf, engine, gpu,
                 transcript, qa, imp, rb, jsonFile>>

\* --------------------------------------------------- btnAdd and indexFile
\* the click handler up to the first await of indexFile(files[0])
AddCall(files) ==
  /\ pc["add"] = "idle"
  /\ Len(docs) + Len(files) <= MaxDocs
  /\ IF Len(files) = 0
       THEN /\ alert' = "SelectFiles"
            /\ pc' = [pc EXCEPT !["add"] = "return"]
            /\ UNCHANGED <<add, progress>>
       ELSE /\ alert' = "none"
            /\ addAdvance([AddIdle EXCEPT !.files = files, !.docs0 = Len(docs),
                                          !.chunks0 = Len(chunks)], progress)
  /\ UNCHANGED <<docs, chunks, dbDocs, dbChunks, embedder, hf, engine, gpu,
                 transcript, qa, imp, rb, jsonFile>>

\* await ensureEmbedder() resumes: docId = uuid(), the doc record,
\* setProgress(0.05), then the file is read
AddEnsured ==
  /\ pc["add"] = "ensured"
  /\ add' = [add EXCEPT !.doc = newDoc(uuid, add.files[add.i])]
  /\ progress' = 50
  /\ pc' = [pc EXCEPT !["add"] = "extract"]
  /\ alert' = "none"
  /\ UNCHANGED <<docs, chunks, dbDocs, dbChunks, embedder, hf, engine, gpu,
                 transcript, qa, imp, rb, jsonFile>>

\* state.docs.push(doc); state.chunks.push(...newChunks); then dbPutMany starts
addCommit(a) ==
  /\ docs' = Append(docs, a.doc)
  /\ chunks' = chunks \o a.newChunks
  /\ add' = [a EXCEPT !.pushed = @ + Len(a.newChunks)]
  /\ pc' = [pc EXCEPT !["add"] = "putDocs"]

\* the file is read and extracted: newChunks is built (embedding: null) and
\* the first batch goes to embedTexts; with no chunk the commit follows at once
AddExtractOk ==
  /\ pc["add"] = "extract"
  /\ LET file == add.files[add.i]
         a == [add EXCEPT !.newChunks = makeChunks(add.doc.id, file), !.b = 0]
     IN /\ progress' = IF file.pdf THEN 420 ELSE 300
        /\ IF a.newChunks = <<>>
             THEN addCommit(a)
             ELSE /\ add' = a
                  /\ pc' = [pc EXCEPT !["add"] = "embed"]
                  /\ UNCHANGED <<docs, chunks>>
  /\ alert' = "none"
  /\ UNCHANGED <<dbDocs, dbChunks, embedder, hf, engine, gpu, transcript, qa, imp,
                 rb, jsonFile>>

\* file.text(), file.arrayBuffer() or extractTextFromPDF rejects
AddExtractFail ==
  /\ pc["add"] = "extract"
  /\ raise("add", progress)
  /\ UNCHANGED <<docs, chunks, dbDocs, dbChunks, embedder, hf, engine, gpu,
                 transcript, qa, imp, rb, jsonFile>>

\* const vecs = await embedTexts(texts) resolves for the batch at add.b
AddEmbedOk ==
  /\ pc["add"] = "embed"
  /\ embedder
  /\ LET n == Len(add.newChunks)
         vecs == embedTexts(batchTexts(add.newChunks, add.b))
         a == [add EXCEPT !.newChunks = assignBatch(add.newChunks, add.b, vecs),
                          !.b = @ + BATCH]
     IN /\ progress' = 450 + (500 * Min(n, add.b + BATCH)) \div Max(1, n)
        /\ IF a.b < n
             THEN /\ add' = a
                  /\ pc' = pc
                  /\ UNCHANGED <<docs, chunks>>
             ELSE addCommit(a)
  /\ alert' = "none"
  /\ UNCHANGED <<dbDocs, dbChunks, embedder, hf, engine, gpu, transcript, qa, imp,
                 rb, jsonFile>>

AddEmbedFail ==
  /\ pc["add"] = "embed"
  /\ raise("add", progress)
  /\ UNCHANGED <<docs, chunks, dbDocs, dbChunks, embedder, hf, engine, gpu,
                 transcript, qa, imp, rb, jsonFile>>

\* await dbPutMany(STORE_DOCS, [doc]) resolves
AddPutDocsOk ==
  /\ pc["add"] = "putDocs"
  /\ dbDocs' = putMany(dbDocs, <<add.doc>>)
  /\ pc' = [pc EXCEPT !["add"] = "putChunks"]
  /\ alert' = "none"
  /\ UNCHANGED <<docs, chunks, dbChunks, embedder, hf, engine, gpu, transcript,
                 progress, add, qa, imp, rb, jsonFile>>

AddPutDocsFail ==
  /\ pc["add"] = "putDocs"
  /\ raise("add", progress)
  /\ UNCHANGED <<docs, chunks, dbDocs, dbChunks, embedder, hf, engine, gpu,
                 transcript, qa, imp, rb, jsonFile>>

\* await dbPutMany(STORE_CHUNKS, newChunks) resolves; setProgress(0); the
\* loop goes on with the next file
AddPutChunksOk ==
  /\ pc["add"] = "putChunks"
  /\ dbChunks' = putMany(dbChunks, add.newChunks)
  /\ addAdvance([add EXCEPT !.done = @ + 1], 0)
  /\ alert' = "none"
  /\ UNCHANGED <<docs, chunks, dbDocs, embedder, hf, engine, gpu, transcript, qa,
                 imp, rb, jsonFile>>

AddPutChunksFail ==
  /\ pc["add"] = "putChunks"
  /\ raise("add", progress)
  /\ UNCHANGED <<docs, chunks, dbDocs, dbChunks, embedder, hf, engine, gpu,
                 transcript, qa, imp, rb, jsonFile>>

\* ---------------------------------------------------------------------- ask
Questions == {"", "t1", "t2"}

\* !questionText.trim()
isBlank(q) == q = ""

\* what the generator may yield as one delta: "" (skipped), "a", "[C1]"
Deltas == {<<>>, <<"a">>, <<"[", "C", "1", "]">>}

DigitChars == {"0", "1", "2", "3", "4", "5", "6", "7", "8", "9"}

digitVal(ch) == CHOOSE n \in 0..9 : <<48 + n>> = Digits(n) /\ ch = ToString(n)

RECURSIVE digitsEnd(_, _)
\* the index of the last character of the run of digits that starts at j
\* (j - 1 when s[j] is no digit)
digitsEnd(s, j) ==
  IF j <= Len(s) /\ s[j] \in DigitChars THEN digitsEnd(s, j + 1) ELSE j - 1

RECURSIVE numberOf(_, _, _)
\* Number(m[1]) of the digits s[j..e]
numberOf(s, j, e) == IF e < j THEN 0 ELSE 10 * numberOf(s, j, e - 1) + digitVal(s[e])

\* the pattern without its closing bracket: /\[C(\d+)/
citationAtOpen(s, i) ==
  /\ i + 2 <= Len(s)
  /\ s[i] = "["
  /\ s[i + 1] = "C"
  /\ digitsEnd(s, i + 2) >= i + 2

\* /\[C(\d+)\]/ matches at index i
citationAt(s, i) ==
  /\ i + 3 <= Len(s)
  /\ s[i] = "["
  /\ s[i + 1] = "C"
  /\ digitsEnd(s, i + 2) >= i + 2
  /\ digitsEnd(s, i + 2) + 1 <= Len(s)
  /\ s[digitsEnd(s, i + 2) + 1] = "]"

\* while ((m = re.exec(answerText)) !== null) used.add(Number(m[1]))
parseUsedCitations(s) ==
  {numberOf(s, i + 2, digitsEnd(s, i + 2)) : i \in {k \in 1..Len(s) : citationAt(s, k)}}

\* renderContextDetails(top, used): one block per retrieved chunk, with its
\* number, document name, page, used tag, score and text
renderContextDetails(top, used) ==
  [i \in 1..Len(top) |->
     [c |-> i, docName |-> top[i].ch.docName, page |-> top[i].ch.page,
      used |-> i \in used, score |-> top[i].score, text |-> top[i].ch.text]]

\* assistantEl.querySelector(".bubble").innerHTML = ...: the element is written
\* through the reference ask holds; it shows in the chat unless the chat was
\* emptied (chat.innerHTML = "") since the element was appended
setBubble(tr, el, text) ==
  IF el \in DOMAIN tr THEN [tr EXCEPT ![el].text = text] ELSE tr

\* meta.innerHTML = ""; meta.appendChild(...)
setMeta(tr, el, meta) ==
  IF el \in DOMAIN tr THEN [tr EXCEPT ![el].meta = meta] ELSE tr

\* a head of ask without the check of state.engine
AskCallUnchecked(q, strict, show) ==
  /\ pc["ask"] = "idle"
  /\ Len(transcript) + 2 <= MaxMsgs
  /\ qa' = [QaIdle EXCEPT !.q = q, !.strict = strict, !.show = show]
  /\ IF isBlank(q)
       THEN /\ alert' = "none"
            /\ pc' = [pc EXCEPT !["ask"] = "return"]
            /\ UNCHANGED progress
       ELSE IF Len(chunks) = 0
         THEN /\ alert' = "NoCorpus"
              /\ pc' = [pc EXCEPT !["ask"] = "return"]
              /\ UNCHANGED progress
         ELSE /\ alert' = "none"
              /\ pc' = [pc EXCEPT !["ask"] = ensurePc]
              /\ progress' = ensureProgress(progress)
  /\ UNCHANGED <<docs, chunks, dbDocs, dbChunks, embedder, hf, engine, gpu,
                 transcript, add, imp, rb, jsonFile>>

\* the synchronous head of ask, up to await ensureEmbedder()
AskCall(q, strict, show) ==
  /\ pc["ask"] = "idle"
  /\ Len(transcript) + 2 <= MaxMsgs
  /\ qa' = [QaIdle EXCEPT !.q = q, !.strict = strict, !.show = show]
  /\ IF isBlank(q)
       THEN /\ alert' = "none"
            /\ pc' = [pc EXCEPT !["ask"] = "return"]
            /\ UNCHANGED progress
       ELSE IF Len(chunks) = 0
         THEN /\ alert' = "NoCorpus"
              /\ pc' = [pc EXCEPT !["ask"] = "return"]
              /\ UNCHANGED progress
         ELSE IF ~engine
           THEN /\ alert' = "GeneratorNotReady"
                /\ pc' = [pc EXCEPT !["ask"] = "return"]
                /\ UNCHANGED progress
           ELSE /\ alert' = "none"
                /\ pc' = [pc EXCEPT !["ask"] = ensurePc]
                /\ progress' = ensureProgress(progress)
  /\ UNCHANGED <<docs, chunks, dbDocs, dbChunks, embedder, hf, engine, gpu,
                 transcript, add, imp, rb, jsonFile>>

\* await ensureEmbedder() resumes: the user message and the assistant
\* placeholder are appended, setProgress(0.1), the question goes to embedTexts
AskEnsured ==
  /\ pc["ask"] = "ensured"
  /\ transcript' = transcript \o <<newMessage("user", <<qa.q>>),
                                   newMessage("assistant", <<"thinking">>)>>
  /\ qa' = [qa EXCEPT !.el = Len(transcript) + 2]
  /\ progress' = 100
  /\ pc' = [pc EXCEPT !["ask"] = "embedQ"]
  /\ alert' = "none"
  /\ UNCHANGED <<docs, chunks, dbDocs, dbChunks, embedder, hf, engine, gpu, add,
                 imp, rb, jsonFile>>

\* const [qVec] = await embedTexts([questionText]) resolves: retrieval, the
\* prompt, setProgress(0.35), and chat.completions.create is called
AskEmbedOk ==
  /\ pc["ask"] = "embedQ"
  /\ LET qVec == embedTexts(<<qa.q>>)[1]
         top == retrieveTopChunks(qVec, chunks)
     IN /\ qa' = [qa EXCEPT !.top = top,
                            !.prompt = <<[strict |-> qa.strict,
                                          context |-> buildContext(top),
                                          question |-> qa.q]>>]
        /\ transcript' = setBubble(transcript, qa.el, <<"generating">>)
  /\ progress' = 350
  /\ pc' = [pc EXCEPT !["ask"] = "create"]
  /\ alert' = "none"
  /\ UNCHANGED <<docs, chunks, dbDocs, dbChunks, embedder, hf, engine, gpu, add,
                 imp, rb, jsonFile>>

AskEmbedFail ==
  /\ pc["ask"] = "embedQ"
  /\ raise("ask", progress)
  /\ UNCHANGED <<docs, chunks, dbDocs, dbChunks, embedder, hf, engine, gpu,
                 transcript, qa, imp, rb, jsonFile>>

\* await state.engine.chat.completions.create(...) resolves with the stream
AskCreateOk ==
  /\ pc["ask"] = "create"
  /\ pc' = [pc EXCEPT !["ask"] = "stream"]
  /\ alert' = "none"
  /\ UNCHANGED <<docs, chunks, dbDocs, dbChunks, embedder, hf, engine, gpu,
                 transcript, progress, add, qa, imp, rb, jsonFile>>

AskCreateFail ==
  /\ pc["ask"] = "create"
  /\ raise("ask", progress)
  /\ UNCHANGED <<docs, chunks, dbDocs, dbChunks, embedder, hf, engine, gpu,
                 transcript, qa, imp, rb, jsonFile>>

\* a loop that puts each delta in front of the answer: answer = delta + answer
AskDeltaPrepend(delta) ==
  /\ pc["ask"] = "stream"
  /\ qa.nd < MaxDeltas
  /\ IF delta = <<>>
       THEN /\ qa' = [qa EXCEPT !.nd = @ + 1, !.deltas = Append(@, delta)]
            /\ UNCHANGED transcript
       ELSE /\ qa' = [qa EXCEPT !.answer = delta \o @, !.nd = @ + 1,
                                !.deltas = Append(@, delta)]
            /\ transcript' = setBubble(transcript, qa.el, delta \o qa.answer)
  /\ alert' = "none"
  /\ UNCHANGED <<docs, chunks, dbDocs, dbChunks, embedder, hf, engine, gpu,
                 progress, pc, add, imp, rb, jsonFile>>

\* for await (const chunk of chunks): if (!delta) continue; answer += delta;
\* the bubble shows the answer
AskDelta(delta) ==
  /\ pc["ask"] = "stream"
  /\ qa.nd < MaxDeltas
  /\ IF delta = <<>>
       THEN /\ qa' = [qa EXCEPT !.nd = @ + 1, !.deltas = Append(@, delta)]
            /\ UNCHANGED transcript
       ELSE /\ qa' = [qa EXCEPT !.answer = @ \o delta, !.nd = @ + 1,
                                !.deltas = Append(@, delta)]
            /\ transcript' = setBubble(transcript, qa.el, qa.answer \o delta)
  /\ alert' = "none"
  /\ UNCHANGED <<docs, chunks, dbDocs, dbChunks, embedder, hf, engine, gpu,
                 progress, pc, add, imp, rb, jsonFile>>

\* an end of the stream that warns of missing citations in either mode
AskStreamEndWarnAlways ==
  /\ pc["ask"] = "stream"
  /\ LET used == parseUsedCitations(qa.answer)
     IN transcript' =
          setMeta(transcript, qa.el,
                  [warn |-> Cardinality(used) = 0,
                   source |-> TRUE,
                   shown |-> qa.show,
                   ctx |-> IF qa.show THEN renderContextDetails(qa.top, used) ELSE <<>>])
  /\ progress' = 0
  /\ pc' = [pc EXCEPT !["ask"] = "return"]
  /\ alert' = "none"
  /\ UNCHANGED <<docs, chunks, dbDocs, dbChunks, embedder, hf, engine, gpu, add,
                 qa, imp, rb, jsonFile>>

\* an end of the stream that retrieves again for the context panel
AskStreamEndFresh ==
  /\ pc["ask"] = "stream"
  /\ LET used == parseUsedCitations(qa.answer)
         top == retrieveTopChunks(embedTexts(<<qa.q>>)[1], chunks)
     IN transcript' =
          setMeta(transcript, qa.el,
                  [warn |-> qa.strict /\ Cardinality(used) = 0,
                   source |-> TRUE,
                   shown |-> qa.show,
                   ctx |-> IF qa.show THEN renderContextDetails(top, used) ELSE <<>>])
  /\ progress' = 0
  /\ pc' = [pc EXCEPT !["ask"] = "return"]
  /\ alert' = "none"
  /\ UNCHANGED <<docs, chunks, dbDocs, dbChunks, embedder, hf, engine, gpu, add,
                 qa, imp, rb, jsonFile>>

\* the stream ends: setProgress(0), the citations are parsed, meta is rebuilt
AskStreamEnd ==
  /\ pc["ask"] = "stream"
  /\ LET used == parseUsedCitations(qa.answer)
     IN transcript' =
          setMeta(transcript, qa.el,
                  [warn |-> qa.strict /\ Cardinality(used) = 0,
                   source |-> TRUE,
                   shown |-> qa.show,
                   ctx |-> IF qa.show THEN renderContextDetails(qa.top, used) ELSE <<>>])
  /\ progress' = 0
  /\ pc' = [pc EXCEPT !["ask"] = "return"]
  /\ alert' = "none"
  /\ UNCHANGED <<docs, chunks, dbDocs, dbChunks, embedder, hf, engine, gpu, add,
                 qa, imp, rb, jsonFile>>

\* a failed stream that is retried: the generator is called again
AskStreamFailRetry ==
  /\ pc["ask"] = "stream"
  /\ pc' = [pc EXCEPT !["ask"] = "create"]
  /\ qa' = [qa EXCEPT !.answer = <<>>]
  /\ alert' = "none"
  /\ UNCHANGED <<docs, chunks, dbDocs, dbChunks, embedder, hf, engine, gpu,
                 transcript, progress, add, imp, rb, jsonFile>>

\* the stream rejects while it is iterated
AskStreamFail ==
  /\ pc["ask"] = "stream"
  /\ raise("ask", progress)
  /\ UNCHANGED <<docs, chunks, dbDocs, dbChunks, embedder, hf, engine, gpu,
                 transcript, qa, imp, rb, jsonFile>>

\* ------------------------------------------------- dbClearAll and btnClear
ClearCallers == {"clear", "import"}

\* the click handler: confirm(), then dbClearAll() up to its first await
ClearCall(ok) ==
  /\ pc["clear"] = "idle"
  /\ pc' = [pc EXCEPT !["clear"] = IF ok THEN "tx1" ELSE "return"]
  /\ alert' = "none"
  /\ UNCHANGED <<docs, chunks, dbDocs, dbChunks, embedder, hf, engine, gpu,
                 transcript, progress, add, qa, imp, rb, jsonFile>>

\* await txDone(tx1) resolves: the docs store is empty; tx2 is opened
ClearTx1Ok(h) ==
  /\ pc[h] = "tx1"
  /\ dbDocs' = {}
  /\ pc' = [pc EXCEPT ![h] = "tx2"]
  /\ alert' = "none"
  /\ UNCHANGED <<docs, chunks, dbChunks, embedder, hf, engine, gpu, transcript,
                 progress, add, qa, imp, rb, jsonFile>>

\* openDB() or tx1 rejects
ClearTx1Fail(h) ==
  /\ pc[h] = "tx1"
  /\ raise(h, progress)
  /\ UNCHANGED <<docs, chunks, dbDocs, dbChunks, embedder, hf, engine, gpu,
                 transcript, qa, imp, rb, jsonFile>>

\* tx2 rejects: the docs store is already empty
ClearTx2Fail(h) ==
  /\ pc[h] = "tx2"
  /\ raise(h, progress)
  /\ UNCHANGED <<docs, chunks, dbDocs, dbChunks, embedder, hf, engine, gpu,
                 transcript, qa, imp, rb, jsonFile>>

\* await dbClearAll() resumes in btnClear: memory and the chat are emptied
ClearDone ==
  /\ pc["clear"] = "tx2"
  /\ dbChunks' = {}
  /\ docs' = <<>>
  /\ chunks' = <<>>
  /\ transcript' = <<>>
  /\ pc' = [pc EXCEPT !["clear"] = "return"]
  /\ alert' = "none"
  /\ UNCHANGED <<dbDocs, embedder, hf, engine, gpu, progress, add, qa, imp, rb,
                 jsonFile>>

\* ------------------------------------------------- exportJSON, importJSON
\* a field of the parsed JSON: missing, falsy (null, 0, "", false), a truthy
\* value that is no array and cannot be spread (a number, an object), an array
jsonArray(items) == [k |-> "array", v |-> items]

\* an export that leaves the page out of the chunk records
exportChunkNoPage(c) ==
  [id |-> c.id, docId |-> c.docId, docName |-> c.docName, page |-> 0,
   text |-> c.text, extra |-> "none"]

\* chunks: state.chunks.map(c => ({ id, docId, docName, page, text }))
exportChunk(c) ==
  [id |-> c.id, docId |-> c.docId, docName |-> c.docName, page |-> c.page,
   text |-> c.text, extra |-> "none"]

\* payload = { version: 1, exportedAt, docs: state.docs, chunks: ... }
exportPayload(ds, chs) ==
  [docs |-> jsonArray(ds),
   chunks |-> jsonArray([i \in 1..Len(chs) |-> exportChunk(chs[i])])]

\* a version-1 payload edited by hand: one document and one chunk, each with a
\* field the format does not name
PayloadHand ==
  [docs |-> jsonArray(<<[id |-> 0, name |-> "hand.txt", extra |-> "note"]>>),
   chunks |-> jsonArray(<<[id |-> <<0, 1, 0>>, docId |-> 0, docName |-> "hand.txt",
                           page |-> 1, text |-> "t1", extra |-> "note"]>>)]

BadPayloads ==
  {[PayloadHand EXCEPT !.docs = [k |-> "missing", v |-> <<>>]],
   [PayloadHand EXCEPT !.chunks = [k |-> "falsy", v |-> <<>>]],
   [PayloadHand EXCEPT !.docs = [k |-> "scalar", v |-> <<>>]],
   [PayloadHand EXCEPT !.chunks = [k |-> "scalar", v |-> <<>>]]}

Payloads == {PayloadHand} \cup BadPayloads \cup {f.data : f \in Range(jsonFile)}

\* !data?.docs || !data?.chunks
formatRejected(data) ==
  data.docs.k \in {"missing", "falsy"} \/ data.chunks.k \in {"missing", "falsy"}

\* data.chunks.map(x => ({ ...x, embedding: null }))
rawChunk(x) ==
  [id |-> x.id, docId |-> x.docId, docName |-> x.docName, page |-> x.page,
   text |-> x.text, extra |-> x.extra, embedding |-> NoVec]

rawChunks(data) == [i \in 1..Len(data.chunks.v) |-> rawChunk(data.chunks.v[i])]

\* exportJSON: the payload is downloaded
ExportCall ==
  /\ jsonFile' = <<[data |-> exportPayload(docs, chunks),
                     from |-> [docs |-> docs, chunks |-> chunks]]>>
  /\ alert' = "none"
  /\ UNCHANGED <<docs, chunks, dbDocs, dbChunks, embedder, hf, engine, gpu,
                 transcript, progress, pc, add, qa, imp, rb>>

\* the change handler of importInput, up to await file.text()
ImportCall(text, data) ==
  /\ pc["import"] = "idle"
  /\ imp' = [text |-> text, data |-> data,
             pre |-> [docs |-> docs, chunks |-> chunks, dbDocs |-> dbDocs,
                      dbChunks |-> dbChunks]]
  /\ pc' = [pc EXCEPT !["import"] = "read"]
  /\ alert' = "none"
  /\ UNCHANGED <<docs, chunks, dbDocs, dbChunks, embedder, hf, engine, gpu,
                 transcript, progress, add, qa, rb, jsonFile>>

\* file.text() resolves: JSON.parse, the format check, dbClearAll() is called
ImportReadOk ==
  /\ pc["import"] = "read"
  /\ IF imp.text = "garbage"
       THEN raise("import", progress)
       ELSE IF formatRejected(imp.data)
         THEN /\ alert' = "BadFormat"
              /\ pc' = [pc EXCEPT !["import"] = "return"]
              /\ UNCHANGED <<add, progress>>
         ELSE /\ alert' = "none"
              /\ pc' = [pc EXCEPT !["import"] = "tx1"]
              /\ UNCHANGED <<add, progress>>
  /\ UNCHANGED <<docs, chunks, dbDocs, dbChunks, embedder, hf, engine, gpu,
                 transcript, qa, imp, rb, jsonFile>>

ImportReadFail ==
  /\ pc["import"] = "read"
  /\ raise("import", progress)
  /\ UNCHANGED <<docs, chunks, dbDocs, dbChunks, embedder, hf, engine, gpu,
                 transcript, qa, imp, rb, jsonFile>>

\* await dbClearAll() resumes in importJSON: memory and the chat are emptied,
\* state.docs.push(...data.docs), data.chunks.map(...), then dbPutMany starts;
\* spreading or mapping a value that is no array throws a TypeError
ImportCleared ==
  /\ pc["import"] = "tx2"
  /\ dbChunks' = {}
  /\ transcript' = <<>>
  /\ IF imp.data.docs.k # "array"
       THEN /\ docs' = <<>>
            /\ chunks' = <<>>
            /\ raise("import", progress)
       ELSE IF imp.data.chunks.k # "array"
         THEN /\ docs' = imp.data.docs.v
              /\ chunks' = <<>>
              /\ raise("import", progress)
         ELSE /\ docs' = imp.data.docs.v
              /\ chunks' = rawChunks(imp.data)
              /\ pc' = [pc EXCEPT !["import"] = "putDocs"]
              /\ alert' = "none"
              /\ UNCHANGED <<add, progress>>
  /\ UNCHANGED <<dbDocs, embedder, hf, engine, gpu, qa, imp, rb, jsonFile>>

\* await dbPutMany(STORE_DOCS, state.docs) resolves
ImportPutDocsOk ==
  /\ pc["import"] = "putDocs"
  /\ dbDocs' = putMany(dbDocs, docs)
  /\ pc' = [pc EXCEPT !["import"] = "putChunks"]
  /\ alert' = "none"
  /\ UNCHANGED <<docs, chunks, dbChunks, embedder, hf, engine, gpu, transcript,
                 progress, add, qa, imp, rb, jsonFile>>

ImportPutDocsFail ==
  /\ pc["import"] = "putDocs"
  /\ raise("import", progress)
  /\ UNCHANGED <<docs, chunks, dbDocs, dbChunks, embedder, hf, engine, gpu,
                 transcript, qa, imp, rb, jsonFile>>

\* await dbPutMany(STORE_CHUNKS, rawChunks) resolves; the closing alert
ImportPutChunksOk ==
  /\ pc["import"] = "putChunks"
  /\ dbChunks' = putMany(dbChunks, rawChunks(imp.data))
  /\ pc' = [pc EXCEPT !["import"] = "return"]
  /\ alert' = "ImportDone"
  /\ UNCHANGED <<docs, chunks, dbDocs, embedder, hf, engine, gpu, transcript,
                 progress, add, qa, imp, rb, jsonFile>>

ImportPutChunksFail ==
  /\ pc["import"] = "putChunks"
  /\ raise("import", progress)
  /\ UNCHANGED <<docs, chunks, dbDocs, dbChunks, embedder, hf, engine, gpu,
                 transcript, qa, imp, rb, jsonFile>>

\* ------------------------------------------------- rebuildAllEmbeddings
RebuildCall ==
  /\ pc["rebuild"] = "idle"
  /\ IF Len(chunks) = 0
       THEN /\ alert' = "NoChunks"
            /\ pc' = [pc EXCEPT !["rebuild"] = "return"]
            /\ progress' = progress
       ELSE /\ alert' = "none"
            /\ pc' = [pc EXCEPT !["rebuild"] = ensurePc]
            /\ progress' = ensureProgress(progress)
  /\ UNCHANGED <<docs, chunks, dbDocs, dbChunks, embedder, hf, engine, gpu,
                 transcript, add, qa, imp, rb, jsonFile>>

\* await ensureEmbedder() resumes: setProgress(0.05), the first batch goes to
\* embedTexts
RebuildEnsured ==
  /\ pc["rebuild"] = "ensured"
  /\ progress' = 50
  /\ rb' = [i |-> 0]
  /\ pc' = [pc EXCEPT !["rebuild"] = IF 0 < Len(chunks) THEN "embed" ELSE "put"]
  /\ alert' = "none"
  /\ UNCHANGED <<docs, chunks, dbDocs, dbChunks, embedder, hf, engine, gpu,
                 transcript, add, qa, imp, jsonFile>>

\* await embedTexts(batch.map(x => x.text)) resolves for the batch at rb.i
RebuildEmbedOk ==
  /\ pc["rebuild"] = "embed"
  /\ LET n == Len(chunks)
         vecs == embedTexts(batchTexts(chunks, rb.i))
     IN /\ chunks' = assignBatch(chunks, rb.i, vecs)
        /\ progress' = 50 + (950 * Min(n, rb.i + BATCH)) \div n
        /\ rb' = [i |-> rb.i + BATCH]
        /\ pc' = [pc EXCEPT !["rebuild"] = IF rb.i + BATCH < n THEN "embed" ELSE "put"]
  /\ alert' = "none"
  /\ UNCHANGED <<docs, dbDocs, dbChunks, embedder, hf, engine, gpu, transcript,
                 add, qa, imp, jsonFile>>

RebuildEmbedFail ==
  /\ pc["rebuild"] = "embed"
  /\ raise("rebuild", progress)
  /\ UNCHANGED <<docs, chunks, dbDocs, dbChunks, embedder, hf, engine, gpu,
                 transcript, qa, imp, rb, jsonFile>>

\* await dbPutMany(STORE_CHUNKS, state.chunks) resolves; setProgress(0)
RebuildPutOk ==
  /\ pc["rebuild"] = "put"
  /\ dbChunks' = putMany(dbChunks, chunks)
  /\ progress' = 0
  /\ pc' = [pc EXCEPT !["rebuild"] = "return"]
  /\ alert' = "none"
  /\ UNCHANGED <<docs, chunks, dbDocs, embedder, hf, engine, gpu, transcript, add,
                 qa, imp, rb, jsonFile>>

RebuildPutFail ==
  /\ pc["rebuild"] = "put"
  /\ raise("rebuild", progress)
  /\ UNCHANGED <<docs, chunks, dbDocs, dbChunks, embedder, hf, engine, gpu,
                 transcript, qa, imp, rb, jsonFile>>

\* ------------------------------------------------------ init, loadFromDB
\* the page is loaded again: a fresh state, docs and chunks read from the
\* Store in key order, then the guidance message
Reload ==
  /\ docs' = getAllDocs(dbDocs)
  /\ chunks' = getAllChunks(dbChunks)
  /\ embedder' = FALSE
  /\ hf' = FALSE
  /\ engine' = FALSE
  /\ transcript' = <<GuideMsg>>
  /\ progress' = 0
  /\ alert' = "none"
  /\ UNCHANGED <<dbDocs, dbChunks, gpu, pc, add, qa, imp, rb, jsonFile>>

\* ------------------------------------------------------ the specification
\* the user issues a command: under Spec only while no command is running
\* (spec.md section 5: one task actor), and at most MaxCommands of them
User(command) ==
  /\ Idle
  /\ ncmd < MaxCommands
  /\ command
  /\ ncmd' = ncmd + 1

\* a suspended handler resumes
Resume(step) == step /\ UNCHANGED ncmd

Next ==
  \/ \E files \in FileLists : User(AddCall(files))
  \/ User(LoadEmbedCall)
  \/ \E hasModel \in BOOLEAN : User(LoadLLMCall(hasModel))
  \/ \E q \in Questions, strict \in BOOLEAN, show \in BOOLEAN : User(AskCall(q, strict, show))
  \/ \E ok \in BOOLEAN : User(ClearCall(ok))
  \/ User(ExportCall)
  \/ \E data \in Payloads : User(ImportCall("json", data))
  \/ User(ImportCall("garbage", NoPayload))
  \/ User(RebuildCall)
  \/ User(Reload)
  \/ \E h \in EnsureCallers : Resume(EnsureImportOk(h))
  \/ \E h \in EnsureCallers : Resume(EnsureImportFail(h))
  \/ \E h \in EnsureCallers : Resume(EnsurePipelineOk(h))
  \/ \E h \in EnsureCallers : Resume(EnsurePipelineFail(h))
  \/ Resume(LoadEmbedDone)
  \/ Resume(LoadLLMOk)
  \/ Resume(LoadLLMFail)
  \/ Resume(AddEnsured)
  \/ Resume(AddExtractOk)
  \/ Resume(AddExtractFail)
  \/ Resume(AddEmbedOk)
  \/ Resume(AddEmbedFail)
  \/ Resume(AddPutDocsOk)
  \/ Resume(AddPutDocsFail)
  \/ Resume(AddPutChunksOk)
  \/ Resume(AddPutChunksFail)
  \/ Resume(AskEnsured)
  \/ Resume(AskEmbedOk)
  \/ Resume(AskEmbedFail)
  \/ Resume(AskCreateOk)
  \/ Resume(AskCreateFail)
  \/ \E delta \in Deltas : Resume(AskDelta(delta))
  \/ Resume(AskStreamEnd)
  \/ Resume(AskStreamFail)
  \/ \E h \in ClearCallers : Resume(ClearTx1Ok(h))
  \/ \E h \in ClearCallers : Resume(ClearTx1Fail(h))
  \/ \E h \in ClearCallers : Resume(ClearTx2Fail(h))
  \/ Resume(ClearDone)
  \/ Resume(ImportReadOk)
  \/ Resume(ImportReadFail)
  \/ Resume(ImportCleared)
  \/ Resume(ImportPutDocsOk)
  \/ Resume(ImportPutDocsFail)
  \/ Resume(ImportPutChunksOk)
  \/ Resume(ImportPutChunksFail)
  \/ Resume(RebuildEnsured)
  \/ Resume(RebuildEmbedOk)
  \/ Resume(RebuildEmbedFail)
  \/ Resume(RebuildPutOk)
  \/ Resume(RebuildPutFail)
  \/ \E h \in Handlers : Resume(Return(h))

Spec == Init /\ [][Next]_vars

\* ------------------------------------------------- retrieval on its own
\* what importJSON leaves in memory for a payload of n chunks of document 0
importedChunks(n) ==
  [k \in 1..n |->
     [id |-> chunkId(0, 1, k - 1), docId |-> 0, docName |-> "hand.txt", page |-> 1,
      text |-> "t3", embedding |-> NoVec, extra |-> "none"]]

\* what indexFile leaves in memory for a text file whose pieces are txt
indexedChunks(docId, txt) ==
  LET made == makeChunks(docId, [name |-> "txt.txt", pdf |-> FALSE, pages |-> <<txt>>])
  IN [k \in 1..Len(made) |-> [made[k] EXCEPT !.embedding = Embed(made[k].text)]]

\* the page after an import of a chunks, an ingestion of one text file of b
\* chunks and the loading of both models
InitTopK ==
  /\ \E a \in 0..MaxTopKNull : \E b \in 0..MaxTopKChunks :
       \E txt \in [1..b -> Texts] :
         /\ chunks = importedChunks(a) \o indexedChunks(1, txt)
         /\ docs = (IF a > 0 THEN <<[id |-> 0, name |-> "hand.txt", extra |-> "none"]>>
                              ELSE <<>>) \o
                    (IF b > 0 THEN <<[id |-> 1, name |-> "txt.txt", extra |-> "none"]>>
                              ELSE <<>>)
  /\ dbDocs = Range(docs)
  /\ dbChunks = Range(chunks)
  /\ embedder = TRUE
  /\ hf = TRUE
  /\ engine = TRUE
  /\ gpu = TRUE
  /\ transcript = <<GuideMsg>>
  /\ progress = 0
  /\ alert = "none"
  /\ pc = [h \in Handlers |-> "idle"]
  /\ add = AddIdle
  /\ qa = QaIdle
  /\ imp = ImpIdle
  /\ rb = RbIdle
  /\ jsonFile = <<>>
  /\ ncmd = 0

NextTopK ==
  \/ \E q \in Questions : User(AskCall(q, FALSE, FALSE))
  \/ Resume(AskEnsured)
  \/ Resume(AskEmbedOk)
  \/ Resume(Return("ask"))

SpecTopK == InitTopK /\ [][NextTopK]_vars

\* ------------------------------------------------- overlapping handlers
\* Nothing disables a button while a handler is suspended at an await, so the
\* user can start a command while others run. Here ask and btnLoadEmbed overlap
\* with every handler, and the handlers that write docs and chunks (btnAdd,
\* importInput, btnRebuild, btnClear) are started one at a time.
Writers == {"add", "import", "rebuild", "clear"}

Start(h, command) ==
  /\ ncmd < MaxCommands
  /\ h \in Writers => \A g \in Writers : pc[g] = "idle"
  /\ command
  /\ ncmd' = ncmd + 1

\* the page after the ingestion of a two-page pdf, a reload or not, and the
\* loading of the generator
InitConc ==
  /\ docs = <<newDoc(1, FilePdf)>>
  /\ chunks = [k \in 1..Len(makeChunks(1, FilePdf)) |->
                 [makeChunks(1, FilePdf)[k] EXCEPT
                    !.embedding = Embed(makeChunks(1, FilePdf)[k].text)]]
  /\ dbDocs = Range(docs)
  /\ dbChunks = Range(chunks)
  /\ embedder \in BOOLEAN
  /\ hf = embedder
  /\ engine = TRUE
  /\ gpu = TRUE
  /\ transcript = <<GuideMsg>>
  /\ progress = 0
  /\ alert = "none"
  /\ pc = [h \in Handlers |-> "idle"]
  /\ add = AddIdle
  /\ qa = QaIdle
  /\ imp = ImpIdle
  /\ rb = RbIdle
  /\ jsonFile = <<>>
  /\ ncmd = 0

NextConc ==
  \/ \E file \in Files : Start("add", AddCall(<<file>>))
  \/ Start("loadEmbed", LoadEmbedCall)
  \/ \E q \in Questions, show \in BOOLEAN : Start("ask", AskCall(q, FALSE, show))
  \/ Start("clear", ClearCall(TRUE))
  \/ Start("import", ImportCall("json", PayloadHand))
  \/ Start("rebuild", RebuildCall)
  \/ \E h \in EnsureCallers : Resume(EnsureImportOk(h))
  \/ \E h \in EnsureCallers : Resume(EnsureImportFail(h))
  \/ \E h \in EnsureCallers : Resume(EnsurePipelineOk(h))
  \/ \E h \in EnsureCallers : Resume(EnsurePipelineFail(h))
  \/ Resume(LoadEmbedDone)
  \/ Resume(AddEnsured)
  \/ Resume(AddExtractOk)
  \/ Resume(AddExtractFail)
  \/ Resume(AddEmbedOk)
  \/ Resume(AddEmbedFail)
  \/ Resume(AddPutDocsOk)
  \/ Resume(AddPutDocsFail)
  \/ Resume(AddPutChunksOk)
  \/ Resume(AddPutChunksFail)
  \/ Resume(AskEnsured)
  \/ Resume(AskEmbedOk)
  \/ Resume(AskEmbedFail)
  \/ Resume(AskCreateOk)
  \/ Resume(AskCreateFail)
  \/ \E delta \in Deltas : Resume(AskDelta(delta))
  \/ Resume(AskStreamEnd)
  \/ Resume(AskStreamFail)
  \/ \E h \in ClearCallers : Resume(ClearTx1Ok(h))
  \/ \E h \in ClearCallers : Resume(ClearTx1Fail(h))
  \/ \E h \in ClearCallers : Resume(ClearTx2Fail(h))
  \/ Resume(ClearDone)
  \/ Resume(ImportReadOk)
  \/ Resume(ImportReadFail)
  \/ Resume(ImportCleared)
  \/ Resume(ImportPutDocsOk)
  \/ Resume(ImportPutDocsFail)
  \/ Resume(ImportPutChunksOk)
  \/ Resume(ImportPutChunksFail)
  \/ Resume(RebuildEnsured)
  \/ Resume(RebuildEmbedOk)
  \/ Resume(RebuildEmbedFail)
  \/ Resume(RebuildPutOk)
  \/ Resume(RebuildPutFail)
  \/ \E h \in Handlers : Resume(Return(h))

SpecConc == InitConc /\ [][NextConc]_vars

\* ------------------------------------------- citation parsing on its own
\* the characters an answer is made of here: the brackets, C, and two digits
CiteChars == {"[", "C", "]", "0", "1"}

AnswerTails == UNION {[1..n -> CiteChars] : n \in 0..MaxAnswerLen}

\* every string of up to MaxAnswerLen characters, alone and behind "[C1]"
Answers == AnswerTails \cup {<<"[", "C", "1", "]">> \o t : t \in AnswerTails}

\* ask at the end of a stream that yielded the answer in one delta, on the
\* page after the ingestion of a two-page pdf and the loading of both models
InitCite ==
  /\ docs = <<newDoc(1, FilePdf)>>
  /\ chunks = [k \in 1..Len(makeChunks(1, FilePdf)) |->
                 [makeChunks(1, FilePdf)[k] EXCEPT
                    !.embedding = Embed(makeChunks(1, FilePdf)[k].text)]]
  /\ dbDocs = Range(docs)
  /\ dbChunks = Range(chunks)
  /\ embedder = TRUE
  /\ hf = TRUE
  /\ engine = TRUE
  /\ gpu = TRUE
  /\ \E answer \in Answers, strict \in BOOLEAN :
       /\ qa = [q |-> "t1", strict |-> strict, show |-> TRUE, el |-> 3,
                top |-> retrieveTopChunks(Embed("t1"), chunks),
                prompt |-> <<[strict |-> strict,
                              context |-> buildContext(retrieveTopChunks(Embed("t1"), chunks)),
                              question |-> "t1"]>>,
                answer |-> answer, nd |-> 1, deltas |-> <<answer>>]
       /\ transcript = <<GuideMsg, newMessage("user", <<"t1">>),
                         newMessage("assistant",
                                    IF answer = <<>> THEN <<"generating">> ELSE answer)>>
  /\ progress = 350
  /\ alert = "none"
  /\ pc = [h \in Handlers |-> IF h = "ask" THEN "stream" ELSE "idle"]
  /\ add = AddIdle
  /\ imp = ImpIdle
  /\ rb = RbIdle
  /\ jsonFile = <<>>
  /\ ncmd = 1

NextCite ==
  \/ Resume(AskStreamEnd)
  \/ Resume(Return("ask"))

SpecCite == InitCite /\ [][NextCite]_vars

\* ------------------------------------------- normalizeText and chunkText
\* A text is a sequence of characters: NUL, space, tab, carriage return, line
\* feed, and "a" for every other character.
Chars == {"nul", "sp", "tab", "cr", "lf", "a"}

\* what String.prototype.trim strips (white space and line terminators)
isSpace(c) == c \in {"sp", "tab", "cr", "lf"}

\* each character with its neighbours, as a regular expression sees them
inContext(t) ==
  [i \in 1..Len(t) |->
     [c |-> t[i],
      p1 |-> IF i > 1 THEN t[i - 1] ELSE "",
      p2 |-> IF i > 2 THEN t[i - 2] ELSE "",
      n1 |-> IF i < Len(t) THEN t[i + 1] ELSE ""]]

\* .replace(/\u0000/g, " ")
replaceNul(t) == [i \in 1..Len(t) |-> IF t[i] = "nul" THEN "sp" ELSE t[i]]

isSpaceOrTab(c) == c \in {"sp", "tab"}

startsBlankRun(x) == ~(isSpaceOrTab(x.c) /\ isSpaceOrTab(x.p1))

\* .replace(/[ \t]+/g, " "): the first character of a run stays, as a space
collapseBlanks(t) ==
  LET kept == SelectSeq(inContext(t), startsBlankRun)
  IN [i \in 1..Len(kept) |-> IF isSpaceOrTab(kept[i].c) THEN "sp" ELSE kept[i].c]

notCrOfCrLf(x) == ~(x.c = "cr" /\ x.n1 = "lf")

\* .replace(/\r\n/g, "\n")
crlfToLf(t) ==
  LET kept == SelectSeq(inContext(t), notCrOfCrLf)
  IN [i \in 1..Len(kept) |-> kept[i].c]

notThirdNewline(x) == ~(x.c = "lf" /\ x.p1 = "lf" /\ x.p2 = "lf")

\* .replace(/\n{3,}/g, "\n\n"): the first two line feeds of a run stay
collapseNewlines(t) ==
  LET kept == SelectSeq(inContext(t), notThirdNewline)
  IN [i \in 1..Len(kept) |-> kept[i].c]

\* String.prototype.trim
trim(t) ==
  LET ink == {i \in 1..Len(t) : ~isSpace(t[i])}
      fromEnd == {Len(t) + 1 - i : i \in ink}
  IN IF ink = {} THEN <<>>
     ELSE SubSeq(t, CHOOSE i \in ink : \A j \in ink : i <= j,
                    Len(t) + 1 - (CHOOSE i \in fromEnd : \A j \in fromEnd : i <= j))

\* normalizeText, lines 79-86
normalizeText(t) == trim(collapseNewlines(crlfToLf(collapseBlanks(replaceNul(t)))))

\* a test that keeps every piece that is not empty
keepPieceNonEmpty(piece) == Len(piece) >= 1

\* if (piece.length >= 30) out.push(piece)
keepPiece(piece) == Len(piece) >= 30

\* how many characters trim strips at the front
leading(w) ==
  LET ink == {i \in 1..Len(w) : ~isSpace(w[i])}
  IN IF ink = {} THEN Len(w) ELSE (CHOOSE i \in ink : \A j \in ink : i <= j) - 1

\* a next window that starts one character late
nextStartLate(end, overlap) == Max(0, end - overlap + 1)

\* start = Math.max(0, end - overlap)
nextStart(end, overlap) == Max(0, end - overlap)

\* a loop that goes on when the window ends exactly at the end of the text
atEndBeyond(t, end, start, chunkSize) == start + chunkSize > Len(t)

\* if (end >= t.length) break
atEnd(t, end, start, chunkSize) == end >= Len(t)

RECURSIVE chunkTurns(_, _, _, _)
\* the turns of the while loop of chunkText from the one that begins at start:
\* of each its start, its end and its piece.  Observed, not computed by the
\* code: lead, the characters trim stripped at the front of the piece
chunkTurns(t, start, chunkSize, overlap) ==
  LET end == Min(Len(t), start + chunkSize)
      window == Slice(t, start, end)
      turn == [start |-> start, end |-> end, lead |-> leading(window),
               piece |-> trim(window)]
  IN IF atEnd(t, end, start, chunkSize) THEN <<turn>>
     ELSE <<turn>> \o chunkTurns(t, nextStart(end, overlap), chunkSize, overlap)

\* const t = normalizeText(text); if (!t) return []; the loop
chunkLoop(text, chunkSize, overlap) ==
  LET t == normalizeText(text)
  IN IF t = <<>> THEN <<>> ELSE chunkTurns(t, 0, chunkSize, overlap)

keptTurn(turn) == keepPiece(turn.piece)

\* out: the pieces the loop pushed
piecesOf(turns) ==
  LET kept == SelectSeq(turns, keptTurn)
  IN [k \in 1..Len(kept) |-> kept[k].piece]

\* chunkText(text, chunkSize = CHUNK_CHARS, overlap = CHUNK_OVERLAP), lines 88-103
chunkText(text, chunkSize, overlap) == piecesOf(chunkLoop(text, chunkSize, overlap))

\* every text of up to MaxTextLen characters
ShortTexts == UNION {[1..n -> Chars] : n \in 0..MaxTextLen}

\* the first n characters of u u u ...
Run(u, n) == [i \in 1..n |-> u[((i - 1) % Len(u)) + 1]]

\* letters, words of one letter, and blank lines
Units == {<<"a">>, <<"a", "sp">>, <<"lf", "sp">>}

\* lengths around the least piece, and the overlap, a window's stride, a window
RunLens ==
  {0, CHUNK_OVERLAP, CHUNK_CHARS - CHUNK_OVERLAP, CHUNK_CHARS} \cup
  {30 + d : d \in (0 - MaxSlack)..MaxSlack}

\* two runs and perhaps a last letter
LongTexts ==
  {Run(u1, n1) \o Run(u2, n2) \o tail :
     u1 \in Units, u2 \in Units, n1 \in RunLens, n2 \in RunLens,
     tail \in {<<>>, <<"a">>}}

\* chunkSize and overlap: the defaults, which is how indexFile calls chunkText,
\* and, to examine chunkText on its own with a short text of a text file,
\* every pair with MaxChunkSize >= chunkSize > overlap >= 0
ChunkParams(text, pdf) ==
  {<<CHUNK_CHARS, CHUNK_OVERLAP>>} \cup
  (IF ~pdf /\ Len(text) <= MaxTextLen
     THEN {<<cs, ov>> : cs \in 1..MaxChunkSize, ov \in 0..(MaxChunkSize - 1)} \cap
          {x \in Nat \X Nat : x[1] > x[2]}
     ELSE {})

\* One file in the hands of indexFile, its embedder loaded.  The handler's
\* locals here: pdf (the file is a PDF), text (file.text(), or the string s
\* that extractTextFromPDF builds from the items of the one page, which ends
\* with the last item's separator), page (pages[0], or text), pieces.
\* chunkSize and overlap are the parameters of chunkText.
\* Observed, not stored by the code: t (the local t of chunkText) and turns
\* (the turns of its loop)
InitText ==
  /\ docs = <<>>
  /\ chunks = <<>>
  /\ dbDocs = {}
  /\ dbChunks = {}
  /\ embedder = TRUE
  /\ hf = TRUE
  /\ engine = FALSE
  /\ gpu = TRUE
  /\ transcript = <<GuideMsg>>
  /\ progress = 50
  /\ alert = "none"
  /\ pc = [h \in Handlers |-> IF h = "add" THEN "extract" ELSE "idle"]
  /\ \E text \in ShortTexts \cup LongTexts, pdf \in BOOLEAN :
       /\ pdf => (IF text = <<>> THEN TRUE ELSE text[Len(text)] \in {"sp", "lf"})
       /\ \E params \in ChunkParams(text, pdf) :
            add = [pdf |-> pdf, text |-> text, chunkSize |-> params[1],
                   overlap |-> params[2], page |-> <<>>, t |-> <<>>, turns |-> <<>>,
                   pieces |-> <<>>]
  /\ qa = QaIdle
  /\ imp = ImpIdle
  /\ rb = RbIdle
  /\ jsonFile = <<>>
  /\ ncmd = 1

\* extractTextFromPDF, line 339: pages.push(normalizeText(s))
TextExtractPage ==
  /\ pc["add"] = "extract"
  /\ add.pdf
  /\ add' = [add EXCEPT !.page = normalizeText(add.text)]
  /\ pc' = [pc EXCEPT !["add"] = "chunk"]
  /\ UNCHANGED <<docs, chunks, dbDocs, dbChunks, embedder, hf, engine, gpu,
                 transcript, progress, alert, qa, imp, rb, jsonFile>>

\* indexFile, line 392: const text = await file.text()
TextRead ==
  /\ pc["add"] = "extract"
  /\ ~add.pdf
  /\ add' = [add EXCEPT !.page = add.text]
  /\ pc' = [pc EXCEPT !["add"] = "chunk"]
  /\ UNCHANGED <<docs, chunks, dbDocs, dbChunks, embedder, hf, engine, gpu,
                 transcript, progress, alert, qa, imp, rb, jsonFile>>

\* indexFile, lines 370 and 393: const pieces = chunkText(...)
TextChunk ==
  /\ pc["add"] = "chunk"
  /\ add' = [add EXCEPT !.t = normalizeText(add.page),
                         !.turns = chunkLoop(add.page, add.chunkSize, add.overlap),
                         !.pieces = chunkText(add.page, add.chunkSize, add.overlap)]
  /\ pc' = [pc EXCEPT !["add"] = "chunked"]
  /\ UNCHANGED <<docs, chunks, dbDocs, dbChunks, embedder, hf, engine, gpu,
                 transcript, progress, alert, qa, imp, rb, jsonFile>>

NextText ==
  \/ Resume(TextExtractPage)
  \/ Resume(TextRead)
  \/ Resume(TextChunk)

SpecText == InitText /\ [][NextText]_vars

\* ================================================================== claims
fileChunkIds(docId, file) == {c.id : c \in Range(makeChunks(docId, file))}

\* C1: while the btnAdd handler runs, every chunk that a step appends to
\* state.chunks or puts into the chunks store carries an embedding, and when
\* indexFile returns, the chunks it made are the chunks of the file, each with
\* an embedding, in memory and in the Store.
C1_EmbeddedBeforeCommit ==
  [][pc["add"] # "idle" =>
       /\ \A c \in (Range(chunks') \ Range(chunks)) \cup (dbChunks' \ dbChunks) :
            hasEmbedding(c)
       /\ add'.done = add.done + 1 =>
            /\ {c.id : c \in Range(add.newChunks)} =
                 fileChunkIds(add.doc.id, add.files[add.i])
            /\ \A c \in Range(add.newChunks) :
                 hasEmbedding(c) /\ c \in Range(chunks') /\ c \in dbChunks']_vars

\* a file of more chunks than one batch has been ingested
C1_Witness ==
  /\ pc["add"] = "return"
  /\ add.done = 1
  /\ Cardinality(dbChunks) > BATCH
  /\ \A c \in dbChunks : hasEmbedding(c)
  /\ Range(chunks) = dbChunks

someEmbedded == \E c \in Range(chunks) : hasEmbedding(c)

\* C2: ask goes past its precondition checks (appends to the transcript, calls
\* the generator) only when some chunk in memory has an embedding.
C2_NoCorpusRejected ==
  pc["ask"] \in {"ens_import", "ens_pipeline", "ensured", "embedQ", "create", "stream"}
    => someEmbedded

askCalled == pc["ask"] = "idle" /\ pc'["ask"] # "idle"

askFrame ==
  /\ pc'["ask"] = "return"
  /\ UNCHANGED <<transcript, docs, chunks, dbDocs, dbChunks, embedder, hf, engine,
                 progress>>

\* C3 as claimed: every call of ask with the generator not loaded or with no
\* chunk raises an alert and changes nothing.
C3_AlertAlways ==
  [][askCalled /\ (~engine \/ Len(chunks) = 0) =>
       askFrame /\ alert' \in {"NoCorpus", "GeneratorNotReady"}]_vars

\* C3 as amended: such a call returns with the transcript, docs, chunks, the
\* Store, the embedder and the progress unchanged; it raises the alert when the
\* question is not blank (NoCorpus before GeneratorNotReady) and none when it is.
C3_PreconditionFrame ==
  [][askCalled /\ (~engine \/ Len(chunks) = 0) =>
       /\ askFrame
       /\ alert' = IF isBlank(qa'.q) THEN "none"
                   ELSE IF Len(chunks) = 0 THEN "NoCorpus" ELSE "GeneratorNotReady"]_vars

\* the generator is not loaded, there are chunks, and a question was refused
C3_Witness ==
  /\ pc["ask"] = "return"
  /\ alert = "GeneratorNotReady"
  /\ ~engine
  /\ Len(chunks) > 0
  /\ ~isBlank(qa.q)

bothArrays(data) == data.docs.k = "array" /\ data.chunks.k = "array"

importLeftAlone ==
  /\ dbDocs = imp.pre.dbDocs
  /\ dbChunks = imp.pre.dbChunks
  /\ docs = imp.pre.docs
  /\ chunks = imp.pre.chunks

\* C4: an import of a payload that lacks a docs array or a chunks array ends in
\* failure with the Store and memory as they were before the call.
C4_BadFormatAborts ==
  (pc["import"] = "return" /\ imp.text = "json" /\ ~bothArrays(imp.data))
    => alert \in {"BadFormat", "ImportFailed"} /\ importLeftAlone

\* C5: when an import of a well-formed payload ends, the Store and memory hold
\* the docs and chunks from before the import or exactly the imported ones.
C5_ImportAtomic ==
  (pc["import"] = "return" /\ imp.text = "json" /\ bothArrays(imp.data))
    => \/ importLeftAlone
       \/ /\ dbDocs = Range(imp.data.docs.v)
          /\ dbChunks = Range(rawChunks(imp.data))
          /\ docs = imp.data.docs.v
          /\ chunks = rawChunks(imp.data)

addEnded == pc["add"] = "return" /\ Len(add.files) > 0

\* C6 as claimed: when the btnAdd handler ends, every file was tried, each
\* failed file raised one alert, and memory grew by the documents and chunks
\* of the files that were ingested and by nothing else.
C6_FailedFileLeavesNothing ==
  addEnded =>
    /\ add.i = Len(add.files)
    /\ add.done + add.errs = Len(add.files)
    /\ Len(docs) = add.docs0 + add.done
    /\ \A c \in Range(SubSeq(chunks, add.chunks0 + 1, Len(chunks))) : c \in dbChunks

\* C6 as amended: every file was tried and each failed file raised one alert; a
\* file that failed before the commit left nothing, one that failed at the
\* Store commit left its document and its chunks in memory.
C6_FailureIsolated ==
  addEnded =>
    /\ add.i = Len(add.files)
    /\ add.done + add.errs = Len(add.files)
    /\ add.late <= add.errs
    /\ Len(docs) = add.docs0 + add.done + add.late
    /\ Len(chunks) = add.chunks0 + add.pushed
    /\ Cardinality({d \in Range(SubSeq(docs, add.docs0 + 1, Len(docs))) :
                      d \in dbDocs /\ \A c \in Range(chunks) :
                                        c.docId = d.id => c \in dbChunks}) >= add.done

\* of two files the first failed before its commit and the second was ingested
C6_Witness ==
  /\ addEnded
  /\ Len(add.files) = 2
  /\ add.errs = 1
  /\ add.late = 0
  /\ add.done = 1
  /\ Len(docs) = add.docs0 + 1
  /\ docs[Len(docs)].name = add.files[2].name
  /\ add.files[1].name # add.files[2].name
  /\ docs[Len(docs)] \in dbDocs

refIntegrity(ds, chs) == \A c \in chs : \E d \in ds : d.id = c.docId

\* C7: whenever no command is running, every chunk in memory and every chunk in
\* the Store refers to a document held in the same place.
C7_ReferentialIntegrity ==
  Idle => refIntegrity(Range(docs), Range(chunks)) /\ refIntegrity(dbDocs, dbChunks)

importedExport ==
  /\ pc["import"] = "return"
  /\ alert = "ImportDone"
  /\ jsonFile # <<>>
  /\ imp.data = jsonFile[1].data

sameChunk(c, o) ==
  /\ c.id = o.id
  /\ c.docId = o.docId
  /\ c.docName = o.docName
  /\ c.page = o.page
  /\ c.text = o.text

\* C8: after an import of the exported file, memory holds the docs and, in
\* order, the chunks (id, docId, docName, page, text) the export was taken
\* from, no chunk has an embedding, and the Store holds the same records.
C8_ExportImportRoundTrip ==
  importedExport =>
    LET from == jsonFile[1].from
    IN /\ docs = from.docs
       /\ Len(chunks) = Len(from.chunks)
       /\ \A i \in DOMAIN chunks :
            sameChunk(chunks[i], from.chunks[i]) /\ ~hasEmbedding(chunks[i])
       /\ dbDocs = Range(docs)
       /\ dbChunks = Range(chunks)

\* the export was taken from an ingested pdf with embedded chunks on two pages
C8_Witness ==
  /\ importedExport
  /\ \E c \in Range(jsonFile[1].from.chunks) : hasEmbedding(c) /\ c.page = 2
  /\ Len(chunks) > 0

\* C9: every field of a record in memory that the format does not name is on
\* the matching record of the exported file, with its value.
C9_ExtraFieldsExported ==
  \A n \in DOMAIN jsonFile :
    LET f == jsonFile[n]
    IN /\ \A i \in DOMAIN f.from.docs : f.data.docs.v[i].extra = f.from.docs[i].extra
       /\ \A i \in DOMAIN f.from.chunks : f.data.chunks.v[i].extra = f.from.chunks[i].extra

embeddedAt == {i \in DOMAIN chunks : hasEmbedding(chunks[i])}

posOf(ch) == CHOOSE i \in DOMAIN chunks : chunks[i] = ch

\* r is ranked before the chunk at position i with score sc
rankedBefore(r, sc, i) == r.score > sc \/ (r.score = sc /\ posOf(r.ch) < i)

topKCorrect(top, q) ==
  /\ Len(top) = Min(TOP_K, Cardinality(embeddedAt))
  /\ \A j \in DOMAIN top :
       /\ \E i \in embeddedAt : chunks[i] = top[j].ch
       /\ top[j].score = dot(q, top[j].ch.embedding)
  /\ \A j, k \in DOMAIN top :
       j < k => rankedBefore(top[j], top[k].score, posOf(top[k].ch))
  /\ \A i \in embeddedAt :
       (\A j \in DOMAIN top : top[j].ch # chunks[i]) =>
         \A j \in DOMAIN top : rankedBefore(top[j], dot(q, chunks[i].embedding), i)

\* C10: the retrieval step of ask yields min(TOP_K, number of embedded chunks)
\* results, each an embedded chunk of state.chunks with its dot-product score,
\* sorted by descending score with equal scores in list order, no chunk left
\* out ranks before a chosen one, and state.chunks is unchanged.
C10_TopK ==
  [][pc["ask"] = "embedQ" /\ pc'["ask"] = "create" =>
       /\ topKCorrect(qa'.top, Embed(qa.q))
       /\ chunks' = chunks]_vars

\* more embedded chunks than TOP_K behind a chunk without embedding, equal
\* scores among the results and a lower score at the end
C10_Witness ==
  /\ pc["ask"] = "create"
  /\ Len(qa.top) = TOP_K
  /\ Cardinality(embeddedAt) > TOP_K
  /\ ~hasEmbedding(chunks[1])
  /\ qa.top[1].score = qa.top[2].score
  /\ qa.top[1].score > qa.top[TOP_K].score
loadingPcs == {"ens_import", "ens_pipeline"}

ensureFailed(h) == pc[h] \in loadingPcs /\ alert' = catchAlert(h) /\ alert' # "none"

ensureEntered(h) ==
  /\ pc[h] \notin loadingPcs \/ ensureFailed(h)
  /\ pc'[h] \in loadingPcs \cup {"ensured"}

\* the page is loaded anew: the only step that unsets state.hf
pageReloaded == hf /\ ~hf'

\* C11: a failed load (runtime import or pipeline creation) leaves state.embedder
\* absent; a call of ensureEmbedder loads exactly when state.embedder is absent,
\* so the call after a failure loads again; and once state.embedder is set it
\* stays set, until the page is loaded anew, and no later call loads.
C11_EmbedderRetry ==
  [][/\ embedder /\ ~pageReloaded => embedder'
     /\ \A h \in EnsureCallers :
          /\ ensureFailed(h) => ~embedder'
          /\ ensureEntered(h) => (pc'[h] \in loadingPcs <=> ~embedder)
          /\ pc'[h] \in loadingPcs => ~embedder']_vars

\* the first file's pipeline creation failed after the runtime was imported,
\* and the second file's call is creating the pipeline again
C11_Witness ==
  /\ pc["add"] = "ens_pipeline"
  /\ add.i = 2
  /\ add.errs = 1
  /\ hf
  /\ ~embedder
\* the handlers whose call of state.embedder(texts) has not returned
embedInFlight ==
  {h \in {"add", "rebuild"} : pc[h] = "embed"} \cup {h \in {"ask"} : pc[h] = "embedQ"}

\* C12: at no time are two calls of the embedding model in flight.
C12_OneEmbeddingCall == Cardinality(embedInFlight) <= 1

\* the handlers whose call of state.hf.pipeline(...) has not returned
pipelineInFlight == {h \in EnsureCallers : pc[h] = "ens_pipeline"}

\* C13: while one call of ensureEmbedder creates the pipeline no other call
\* creates one, and none is created once state.embedder is set: the model is
\* loaded at most once.
C13_LoadDeduplicated ==
  /\ Cardinality(pipelineInFlight) <= 1
  /\ embedder => pipelineInFlight = {}
retrievalRan == pc["ask"] \in {"create", "stream"}

streamEnded == pc["ask"] = "stream" /\ pc'["ask"] = "return" /\ alert' = "none"

promptOf(q, strict, top) ==
  <<[strict |-> strict, context |-> buildContext(top), question |-> q]>>

\* C16: the retrieval step of ask ranks the chunks in memory at that moment and
\* builds the prompt from the ranked list; from then until ask returns, whatever
\* the other handlers do, the list and the prompt stay as they are, and the
\* context panel rendered when the stream ends shows that list.
C16_RetrievalSnapshot ==
  [][/\ pc["ask"] = "embedQ" /\ pc'["ask"] = "create" =>
          /\ qa'.top = retrieveTopChunks(Embed(qa.q), chunks)
          /\ qa'.prompt = promptOf(qa.q, qa.strict, qa'.top)
     /\ retrievalRan /\ pc'["ask"] # "idle" =>
          /\ qa'.top = qa.top
          /\ qa'.prompt = qa.prompt
     /\ streamEnded /\ qa.show /\ qa.el \in DOMAIN transcript' =>
          transcript'[qa.el].meta.ctx =
            renderContextDetails(qa.top, parseUsedCitations(qa.answer))]_vars

\* the stream has ended with the context panel shown, and the chunks in memory
\* are no longer those the panel was retrieved from
C16_Witness ==
  /\ pc["ask"] = "return"
  /\ alert = "none"
  /\ qa.show
  /\ qa.el \in DOMAIN transcript
  /\ transcript[qa.el].meta.ctx # <<>>
  /\ pc["add"] = "return"
  /\ add.done = 1
  /\ transcript[qa.el].meta.ctx #
       renderContextDetails(retrieveTopChunks(Embed(qa.q), chunks),
                            parseUsedCitations(qa.answer))
shownText == transcript[qa.el].text

streamFailed == pc["ask"] = "stream" /\ pc'["ask"] = "return" /\ alert' = "AskFailed"

RECURSIVE decimal(_)
\* the decimal form of n, as characters
decimal(n) ==
  IF n < 10 THEN <<ToString(n)>> ELSE decimal(n \div 10) \o <<ToString(n % 10)>>

RECURSIVE valueFrom(_, _)
valueFrom(d, acc) ==
  IF d = <<>> THEN acc
  ELSE valueFrom(Tail(d), 10 * acc + (CHOOSE n \in 0..9 : ToString(n) = Head(d)))

\* the digit strings d for which the text "[C" d "]" appears in s
citedDigits(s) ==
  {SubSeq(s, p[1] + 2, p[2] - 1) :
     p \in {r \in (1..Len(s)) \X (1..Len(s)) :
              /\ r[1] + 3 <= r[2]
              /\ s[r[1]] = "["
              /\ s[r[1] + 1] = "C"
              /\ s[r[2]] = "]"
              /\ \A k \in (r[1] + 2)..(r[2] - 1) : s[k] \in DigitChars}}

\* the marks set by the context panel rendered at the end of the stream
usedShown == {i \in DOMAIN transcript[qa.el].meta.ctx : transcript[qa.el].meta.ctx[i].used}

\* C17 as claimed: parseUsedCitations(answer) is the set of the integers n
\* whose text "[C" n "]", n in decimal form, appears in the answer.
C17_ExactlyTheIntegersCited ==
  pc["ask"] = "return" =>
    parseUsedCitations(qa.answer) =
      {valueFrom(d, 0) : d \in {c \in citedDigits(qa.answer) : c = decimal(valueFrom(c, 0))}}

\* C17 as amended: parseUsedCitations(answer) is the set of the values of the
\* digit strings d for which "[C" d "]" appears in the answer, leading zeros
\* allowed; the context panel marks the retrieved chunks with these numbers.
C17_ValuesOfCitedDigits ==
  /\ pc["ask"] \in {"stream", "return"} =>
       parseUsedCitations(qa.answer) = {valueFrom(d, 0) : d \in citedDigits(qa.answer)}
  /\ pc["ask"] = "return" =>
       usedShown = {i \in DOMAIN qa.top : \E d \in citedDigits(qa.answer) : valueFrom(d, 0) = i}

\* an answer with two citations, one of them with a leading zero, was parsed
C17_Witness ==
  /\ pc["ask"] = "return"
  /\ Cardinality(citedDigits(qa.answer)) = 2
  /\ <<"0", "1">> \in citedDigits(qa.answer)
  /\ usedShown = {1}
streamCompleted == pc["ask"] = "return" /\ alert = "none" /\ transcript[qa.el].meta.source

\* C18: after an ask whose stream completed, the assistant message carries the
\* no-citation warning exactly when strict was set and no "[C" digits "]"
\* appears in the answer.
C18_WarnIffStrictAndUncited ==
  streamCompleted =>
    (transcript[qa.el].meta.warn <=> (qa.strict /\ citedDigits(qa.answer) = {}))

\* a strict ask ended with an answer that has brackets and digits but no
\* citation, and the warning is attached
C18_Witness ==
  /\ streamCompleted
  /\ qa.strict
  /\ transcript[qa.el].meta.warn
  /\ Len(qa.answer) = MaxAnswerLen
  /\ \E i \in DOMAIN qa.answer : qa.answer[i] = "["
  /\ \E i \in DOMAIN qa.answer : qa.answer[i] = "1"
\* C19: normalizing a normalized text gives it back: the page text that
\* extractTextFromPDF normalized, and the text chunkText normalized, are
\* left as they are by normalizeText.
C19_NormalizeIdempotent ==
  /\ pc["add"] \in {"chunk", "chunked"} /\ add.pdf => normalizeText(add.page) = add.page
  /\ pc["add"] = "chunked" => normalizeText(add.t) = add.t

nonSpace(piece) == Cardinality({i \in DOMAIN piece : ~isSpace(piece[i])})

\* C20 as stated: every string chunkText returned has at least 30 characters
\* that are not white space.
C20_ThirtyNonWhitespace ==
  pc["add"] = "chunked" => \A k \in DOMAIN add.pieces : nonSpace(add.pieces[k]) >= 30

\* C20: every string chunkText returned has at least 30 characters, white
\* space inside it counted, and neither begins nor ends with white space.
C20_ThirtyCharacters ==
  pc["add"] = "chunked" =>
    \A k \in DOMAIN add.pieces :
      LET piece == add.pieces[k]
      IN /\ Len(piece) >= 30
         /\ ~isSpace(piece[1])
         /\ ~isSpace(piece[Len(piece)])

\* a text of more than one window whose last window, trimmed, is too short
\* and was dropped, while a kept piece has white space inside
C20_Witness ==
  /\ pc["add"] = "chunked"
  /\ Len(add.t) > CHUNK_CHARS
  /\ Len(add.pieces) = 1
  /\ \E i \in DOMAIN add.pieces[1] : isSpace(add.pieces[1][i])
\* C25 as stated: whenever no handler is running, the progress bar is at 0.
C25_IdleProgressZero == Idle => progress = 0
rebuildStep == pc["rebuild"] # pc'["rebuild"] \/ rb' # rb

rebuildCompleted == pc["rebuild"] = "put" /\ pc'["rebuild"] = "return" /\ alert' = "none"

\* ids of the chunks among chs that have no embedding, and of those that have
unembedded(chs) == {c.id : c \in {x \in chs : ~hasEmbedding(x)}}

embedded(chs) == {c.id : c \in {x \in chs : hasEmbedding(x)}}

\* C22: a step of rebuildAllEmbeddings leaves the documents, and the id, docId,
\* docName, page and text of every chunk, as they were; the step that completes
\* it leaves every chunk in memory with the embedding of its own text and as a
\* record of the Store; and a chunk without embedding stays without one, in
\* memory until a batch of rebuildAllEmbeddings returns and in the Store until
\* rebuildAllEmbeddings completes.
C22_ReindexEmbedsOwnText ==
  [][/\ rebuildStep =>
          /\ docs' = docs
          /\ dbDocs' = dbDocs
          /\ Len(chunks') = Len(chunks)
          /\ \A n \in DOMAIN chunks : sameChunk(chunks'[n], chunks[n])
     /\ rebuildCompleted =>
          /\ chunks # <<>>
          /\ \A n \in DOMAIN chunks' : chunks'[n].embedding = Embed(chunks'[n].text)
          /\ Range(chunks') \subseteq dbChunks'
     /\ unembedded(Range(chunks)) \cap embedded(Range(chunks')) # {} =>
          pc["rebuild"] = "embed" /\ rebuildStep
     /\ unembedded(dbChunks) \cap embedded(dbChunks') # {} => rebuildCompleted]_vars

\* an import has been followed by a re-index that is complete: the imported
\* chunks are embedded in memory and in the Store
C22_Witness ==
  /\ pc["rebuild"] = "return"
  /\ alert = "none"
  /\ \E n \in DOMAIN chunks : chunks[n].docName = "hand.txt"
  /\ Len(chunks) >= 3
  /\ \E n \in DOMAIN chunks, m \in DOMAIN chunks : chunks[n].embedding # chunks[m].embedding
  /\ \A n \in DOMAIN chunks : hasEmbedding(chunks[n]) /\ chunks[n] \in dbChunks
\* the chunk at position i is not behind the chunk at position j in the order
\* (page ascending, ordinal ascending); id = <<docId, page, ordinal>>
inPageOrder(a, b) == a.id[2] < b.id[2] \/ (a.id[2] = b.id[2] /\ a.id[3] <= b.id[3])

\* C23 as stated: in every state the chunks of one document stand in
\* state.chunks in (page ascending, ordinal ascending) order.
C23_ChunksInIngestionOrder ==
  \A i \in DOMAIN chunks, j \in DOMAIN chunks :
    i < j /\ chunks[i].docId = chunks[j].docId => inPageOrder(chunks[i], chunks[j])
chunked == pc["add"] = "chunked"

\* C24: when chunkText has returned, the start of the window went up at every
\* turn of its loop, the loop ended at the first window whose end reached the
\* length of the text, and it made no more turns than the text has characters.
C24_ChunkTextTerminates ==
  chunked =>
    /\ \A k \in 1..(Len(add.turns) - 1) :
         /\ add.turns[k + 1].start > add.turns[k].start
         /\ add.turns[k].end < Len(add.t)
    /\ add.turns # <<>> => add.turns[Len(add.turns)].end = Len(add.t)
    /\ Len(add.turns) <= Len(add.t)
    /\ add.t # <<>> => add.turns # <<>>

\* a loop of three turns with the default parameters
C24_Witness ==
  /\ chunked
  /\ add.chunkSize = CHUNK_CHARS
  /\ add.overlap = CHUNK_OVERLAP
  /\ Len(add.turns) = 3

\* the loop has run with the default parameters
chunkedByDefault == chunked /\ add.chunkSize = CHUNK_CHARS /\ add.overlap = CHUNK_OVERLAP

\* the turns whose piece was returned, in order
returned == SelectSeq(add.turns, keptTurn)

\* the characters of the normalized text that a returned piece holds, as
\* positions from 0: the window without what trim stripped
span(turn) == (turn.start + turn.lead)..(turn.start + turn.lead + Len(turn.piece) - 1)

window(turn) == turn.start..(turn.end - 1)

\* C21 as stated: the strings chunkText returned, each next to the one
\* returned after it, share exactly 200 characters of the normalized text, and
\* every character of a window whose piece was returned (a window of at least
\* 30 characters) is in a returned string.
C21_ReturnedOverlapAndCover ==
  chunkedByDefault =>
    /\ \A k \in 1..(Len(returned) - 1) :
         Cardinality(span(returned[k]) \cap span(returned[k + 1])) = CHUNK_OVERLAP
    /\ \A k \in DOMAIN returned :
         window(returned[k]) \subseteq UNION {span(returned[j]) : j \in DOMAIN returned}

\* C21: each window of the loop starts at the end of the window before it minus
\* 200 and shares exactly those 200 characters with it; and every character
\* that is not white space, of a window whose trimmed text has at least 30
\* characters, is in a returned string.
C21_WindowsOverlapAndCover ==
  chunkedByDefault =>
    /\ \A k \in 1..(Len(add.turns) - 1) :
         /\ add.turns[k + 1].start = add.turns[k].end - CHUNK_OVERLAP
         /\ Cardinality(window(add.turns[k]) \cap window(add.turns[k + 1])) = CHUNK_OVERLAP
    /\ \A k \in DOMAIN add.turns :
         Len(add.turns[k].piece) >= 30 =>
           \A p \in window(add.turns[k]) :
             ~isSpace(add.t[p + 1]) =>
               \E j \in DOMAIN returned :
                 /\ p \in span(returned[j])
                 /\ returned[j].piece[p - returned[j].start - returned[j].lead + 1] = add.t[p + 1]

\* three windows, the second of white space and a few letters and dropped, the
\* first and the third returned, the first shorter than its window
C21_Witness ==
  /\ chunkedByDefault
  /\ Len(add.turns) = 3
  /\ Len(returned) = 2
  /\ Len(returned[1].piece) < CHUNK_CHARS
====
